---- MODULE Spec2Model ----
(***************************************************************************)
(* The kernel and project directory of distributing_data.ipynb.            *)
(*                                                                         *)
(* A Jupyter kernel executes one cell at a time, in whatever order the     *)
(* user picks, any number of times.  A cell whose statement raises stops   *)
(* there: the statements before it have taken effect, the ones after it    *)
(* have not.  The state is the kernel's namespace (intake, data_source,    *)
(* cat, df), the project's files (the csv files of datasets/, the data/    *)
(* directory, my_catalog.yml) and what the last cell displayed or raised.  *)
(*                                                                         *)
(* The calls into Intake and pandas are modelled by what the notebook's    *)
(* text documents them to do (the catalog text of .yaml(), the entries of  *)
(* open_catalog, the dataframe of read_csv); Intake's own source is not    *)
(* part of the repository.                                                 *)
(***************************************************************************)
EXTENDS Integers, Sequences, FiniteSets, TLC

\* ---------------------------------------------------------------- bounds

\* Data rows a csv file of the project may hold.
MaxRows == 2

\* ------------------------------------------------------ project files

\* The emissions scenarios and models that name the csv files:
\* SRLCC_<emissions>_Precip_<model>.csv
Emissions == {"b1", "a2"}
Models == {"PCM-NCAR"}
FileIds == Emissions \X Models

\* The order in which a glob returns the files (sorted by name).
FileOrder == <<  <<"a2", "PCM-NCAR">>, <<"b1", "PCM-NCAR">>  >>

\* The lines before the data of each csv file, which skiprows=3 skips.
HeaderLines == 3

\* The names an editor may give the data source, and the description.
NewNames == {"precip"}
Descriptions == {"Modelled precipitation"}

VARIABLES
    datasets,      \* the csv files present in datasets/ (a set of FileIds)
    data_dir,      \* <<>> when data/ does not exist, else <<its file names>>
    nrows,         \* data rows of each csv file
    my_catalog,    \* <<>> when my_catalog.yml does not exist, else <<its text>>
    intake,        \* TRUE once 'import intake' has run
    data_source,   \* <<>> or <<the source object>>
    cat,           \* <<>> or <<the catalog object>>
    df,            \* <<>> or <<the dataframe>>
    out,           \* the list the last cell displayed: <<>> or <<list>>
    err,           \* the exception the last cell raised, "" when none
    last,          \* the last cell run
    listed,        \* the directories os.listdir has listed
    opened,        \* the paths given to pd.read_csv and intake.open_csv
    fileBy         \* what last changed my_catalog.yml

vars == <<datasets, data_dir, nrows, my_catalog, intake, data_source, cat, df,
          out, err, last, listed, opened, fileBy>>

files == <<datasets, data_dir, nrows>>
ghost == <<listed, opened, fileBy>>

\* ------------------------------------------------------------- paths

\* A path is a sequence of text pieces; the path string is their
\* concatenation.  The pieces isolate what the catalog edits replace.
FileName(e, m) == <<"SRLCC_", e, "_Precip_", m, ".csv">>

\* 'datasets/SRLCC_b1_Precip_PCM-NCAR.csv'
CsvPath == <<"datasets", "/">> \o FileName("b1", "PCM-NCAR")

\* 'data'
ListedPath == <<"data">>

CatalogDirTag == "{{ CATALOG_DIR }}"

\* The directory part of a path: the pieces before the last "/".
RECURSIVE Dirname(_)
Dirname(p) ==
    IF p = <<>> THEN <<>>
    ELSE IF p[Len(p)] = "/" THEN SubSeq(p, 1, Len(p) - 1)
    ELSE Dirname(SubSeq(p, 1, Len(p) - 1))

\* The directory that holds the notebook and my_catalog.yml; the kernel's
\* working directory, against which a relative path is resolved.
ProjectDir == "<project>/"

AbsPath(p) == IF p # <<>> /\ p[1] = ProjectDir THEN p ELSE <<ProjectDir>> \o p

\* The path of a csv file of datasets/.
DatasetPath(f) == <<ProjectDir, "datasets", "/">> \o FileName(f[1], f[2])

\* The fields a path pattern names: '{emissions}', '{model}'.
FieldOf == [emissions |-> "{emissions}", model |-> "{model}"]
IsField(piece) == piece \in {FieldOf.emissions, FieldOf.model}

\* The files of datasets/ that a path (a literal one, or a pattern) names.
MatchesPath(f, p) ==
    LET a == AbsPath(p)
        t == DatasetPath(f)
    IN /\ Len(a) = Len(t)
       /\ \A i \in 1..Len(t) : a[i] = t[i] \/ IsField(a[i])

Glob(p, present) == {f \in present : MatchesPath(f, p)}

\* The pattern fields of a path, in the order they occur.
PatternFields(p) ==
    LET a == AbsPath(p)
    IN (IF \E i \in 1..Len(a) : a[i] = FieldOf.emissions
            THEN <<"emissions">> ELSE <<>>)
       \o (IF \E i \in 1..Len(a) : a[i] = FieldOf.model
            THEN <<"model">> ELSE <<>>)

\* ---------------------------------------------------------- csv files

\* A field of a csv line: its kind of text and a number that tells it
\* from the other fields of that kind.
Field(k, v) == [kind |-> k, v |-> v]

FileIndex(f) == CHOOSE i \in 1..Len(FileOrder) : FileOrder[i] = f

\* The lines of a csv file that holds n data rows: the header lines, then
\* one line 'time,precip' per row.
CsvLines(f, n) ==
    [i \in 1..(HeaderLines + n) |->
        IF i <= HeaderLines
        THEN <<Field("text", i), Field("text", i)>>
        ELSE <<Field("date", i - HeaderLines),
               Field("number", 10 * FileIndex(f) + (i - HeaderLines))>>]

\* ------------------------------------------------------------ pandas

\* The keyword arguments of the notebook's csv read.
CsvKwargs == [skiprows |-> 3,
              names |-> <<"time", "precip">>,
              parse_dates |-> <<"time">>]

InSeq(x, s) == \E i \in 1..Len(s) : s[i] = x

\* One cell of a dataframe: the dtype pandas gives the column's value.
ParseCell(field, asDate) ==
    IF asDate /\ field.kind = "date" THEN [dtype |-> "datetime64", v |-> field.v]
    ELSE IF field.kind = "number" THEN [dtype |-> "float64", v |-> field.v]
    ELSE [dtype |-> "object", v |-> field.v]

\* pd.read_csv(file, skiprows=, names=, parse_dates=) on a file's lines:
\* the lines after the first skiprows, their fields under the given names.
read_csv(lines, kw) ==
    LET kept == IF kw.skiprows >= Len(lines) THEN <<>>
                ELSE SubSeq(lines, kw.skiprows + 1, Len(lines))
    IN [columns |-> kw.names,
        rows |-> [r \in 1..Len(kept) |->
                    [c \in 1..Len(kw.names) |->
                        ParseCell(kept[r][c], InSeq(kw.names[c], kw.parse_dates))]]]


\* ------------------------------------------------------------ Intake

\* The values a pattern field takes, in the order of its categories.
EmissionsOrder == <<"a2", "b1">>
ModelOrder == <<"PCM-NCAR">>
IndexIn(x, s) == CHOOSE i \in 1..Len(s) : s[i] = x

\* intake.open_csv(urlpath, csv_kwargs=...): the source object.  It keeps
\* the arguments it was created with: the positional ones and the keyword
\* ones.
open_csv(urlpath, kw) ==
    [name |-> "csv",
     classname |-> "intake.source.csv.CSVSource",
     init_args |-> <<urlpath>>,
     init_kwargs |-> [csv_kwargs |-> kw],
     description |-> ""]

\* yaml() as it would be if only the keyword arguments of the source were
\* kept: the positional urlpath is lost.
yaml_kwargs_only(src) ==
    [sources |->
        (src.name :> [args |-> [urlpath |-> <<>>,
                                csv_kwargs |-> src.init_kwargs.csv_kwargs],
                      description |-> src.description,
                      driver |-> src.classname])]

\* source.yaml(): the catalog text, one entry under 'sources', named by
\* the driver's name, whose args are the arguments the source was created
\* with, the positional one under its parameter's name, urlpath.
yaml(src) ==
    [sources |->
        (src.name :> [args |-> [urlpath |-> src.init_args[1],
                                csv_kwargs |-> src.init_kwargs.csv_kwargs],
                      description |-> src.description,
                      driver |-> src.classname])]

\* open('my_catalog.yml', 'w'): the file exists and is empty.
open_w(file) == << <<>> >>

\* The with block as it would be without its f.write: the file stays as
\* open() left it.
write_nothing(file, text) == file

\* f.write(text) on the file just opened in 'w' mode.
write(file, text) == << Append(file[1], text) >>

\* intake.open_catalog(path) on the text of a catalog file: the entries
\* that its 'sources' name.  An empty file holds no catalog.
CanOpenCatalog(file) == file # <<>> /\ file[1] # <<>>
open_catalog(file) == [entries |-> file[1][1].sources]

\* list(cat): the names of the entries.  The catalogs of this notebook
\* hold one entry.
RECURSIVE SetToSeq(_)
SetToSeq(S) ==
    IF S = {} THEN <<>>
    ELSE LET x == CHOOSE y \in S : TRUE IN <<x>> \o SetToSeq(S \ {x})

list(c) == SetToSeq(DOMAIN c.entries)

\* The template {{ CATALOG_DIR }} of an entry's urlpath stands for the
\* directory of the catalog file.
RenderPath(p) ==
    [i \in 1..Len(p) |-> IF p[i] = CatalogDirTag THEN ProjectDir ELSE p[i]]

\* cat.<name>: the source the entry describes, created by the entry's
\* driver from the entry's args.
HasEntry(c, n) == n \in DOMAIN c.entries

\* get_source as it would be if the entry's csv_kwargs were not handed to
\* the driver: the csv is read with pandas' defaults under the same names.
get_source_no_kwargs(c, n) ==
    LET e == c.entries[n]
    IN [name |-> "csv",
        classname |-> e.driver,
        init_args |-> <<>>,
        init_kwargs |-> [urlpath |-> RenderPath(e.args.urlpath),
                         csv_kwargs |-> [skiprows |-> 0,
                                         names |-> e.args.csv_kwargs.names,
                                         parse_dates |-> <<>>]],
        description |-> e.description]

get_source(c, n) ==
    LET e == c.entries[n]
    IN [name |-> "csv",
        classname |-> e.driver,
        init_args |-> <<>>,
        init_kwargs |-> [urlpath |-> RenderPath(e.args.urlpath),
                         csv_kwargs |-> e.args.csv_kwargs],
        description |-> e.description]

\* The urlpath and the csv_kwargs a source reads with, however they were
\* passed.
UrlpathOf(src) ==
    IF src.init_args # <<>> THEN src.init_args[1] ELSE src.init_kwargs.urlpath
KwargsOf(src) == src.init_kwargs.csv_kwargs

\* The columns that a path pattern adds to the rows read from file f.
PatternCells(f, fields) ==
    [i \in 1..Len(fields) |->
        IF fields[i] = "emissions"
        THEN [dtype |-> "category", v |-> IndexIn(f[1], EmissionsOrder)]
        ELSE [dtype |-> "category", v |-> IndexIn(f[2], ModelOrder)]]

\* The dataframe of one file of a source: read_csv with the csv_kwargs,
\* then a column for each field of the path pattern.
ReadOne(f, n, kw, fields) ==
    LET d == read_csv(CsvLines(f, n), kw)
    IN [columns |-> d.columns \o fields,
        rows |-> [r \in 1..Len(d.rows) |-> d.rows[r] \o PatternCells(f, fields)]]

\* The rows of the files found, one file after the other.
RECURSIVE ConcatRows(_, _, _, _, _)
ConcatRows(i, found, n, kw, fields) ==
    IF i > Len(FileOrder) THEN <<>>
    ELSE (IF FileOrder[i] \in found
          THEN ReadOne(FileOrder[i], n, kw, fields).rows ELSE <<>>)
         \o ConcatRows(i + 1, found, n, kw, fields)

\* source.read() finds a file to read.
CanRead(src, present) == Glob(UrlpathOf(src), present) # {}

\* source.read(): the dataframe of the files the urlpath names.
read(src, present, n) ==
    LET p == UrlpathOf(src)
        fields == PatternFields(p)
    IN [columns |-> KwargsOf(src).names \o fields,
        rows |-> ConcatRows(1, Glob(p, present), n, KwargsOf(src), fields)]

\* ------------------------------------------------------ catalog edits

\* The text of my_catalog.yml holds a catalog that an editor can change.
HasCatalogText(file) == file # <<>> /\ file[1] # <<>>

WithSources(file, s) == << <<[sources |-> s]>> >>

\* 1. Change the name of the data source.
rename(s, old, new) ==
    [n \in (DOMAIN s \ {old}) \cup {new} |-> IF n = new THEN s[old] ELSE s[n]]

\* 2. Add a description.
describe(s, n, d) == [s EXCEPT ![n].description = d]

\* 3. Add {{ CATALOG_DIR }} to the beginning of the urlpath.
add_catalog_dir(s, n) ==
    [s EXCEPT ![n].args.urlpath = <<CatalogDirTag>> \o @]

\* 4. In the urlpath replace b1 with {emissions} and PCM-NCAR with {model}.
PatternPiece(piece) ==
    IF piece = "b1" THEN FieldOf.emissions
    ELSE IF piece = "PCM-NCAR" THEN FieldOf.model
    ELSE piece

add_pattern(s, n) ==
    [s EXCEPT ![n].args.urlpath = [i \in 1..Len(@) |-> PatternPiece(@[i])]]

\* ------------------------------------------------------------- Init

\* The project as checked out, before any cell has run.  data/ is absent
\* or holds the csv files; datasets/ holds some of them.
Init ==
    /\ datasets \in SUBSET FileIds
    /\ data_dir \in {<<>>, <<FileIds>>}
    /\ nrows \in 1..MaxRows
    /\ my_catalog = <<>>
    /\ intake = FALSE
    /\ data_source = <<>>
    /\ cat = <<>>
    /\ df = <<>>
    /\ out = <<>>
    /\ err = ""
    /\ last = "start"
    /\ listed = {}
    /\ opened = {}
    /\ fileBy = "none"

\* A cell that raised: nothing is displayed.
Raise(cell, e) == /\ last' = cell /\ err' = e /\ out' = <<>>

\* A cell that completed and displayed the list v (<<>> when it displays
\* none; the dataframe that df.head() displays is the head of df).
Done(cell, v) == /\ last' = cell /\ err' = "" /\ out' = v

\* ------------------------------------------------------------ cells

\* import intake
ImportIntake ==
    /\ intake' = TRUE
    /\ Done("ImportIntake", <<>>)
    /\ UNCHANGED <<files, my_catalog, data_source, cat, df, ghost>>

\* import os; os.listdir('data')
ListDataDir ==
    /\ IF data_dir = <<>>
       THEN /\ Raise("ListDataDir", "FileNotFoundError")
            /\ UNCHANGED listed
       ELSE /\ Done("ListDataDir", <<SetToSeq(data_dir[1])>>)
            /\ listed' = listed \cup {ListedPath}
    /\ UNCHANGED <<files, my_catalog, intake, data_source, cat, df,
                   opened, fileBy>>

\* import pandas as pd; df = pd.read_csv('datasets/...', ...); df.head()
ReadCsvPandas ==
    /\ opened' = opened \cup {CsvPath}
    /\ IF Glob(CsvPath, datasets) = {}
       THEN /\ Raise("ReadCsvPandas", "FileNotFoundError")
            /\ UNCHANGED df
       ELSE LET f == CHOOSE g \in Glob(CsvPath, datasets) : TRUE
            IN /\ df' = <<read_csv(CsvLines(f, nrows), CsvKwargs)>>
               /\ Done("ReadCsvPandas", <<>>)
    /\ UNCHANGED <<files, my_catalog, intake, data_source, cat,
                   listed, fileBy>>

\* data_source = intake.open_csv('datasets/...', csv_kwargs=dict(...))
OpenCsv ==
    /\ IF ~intake
       THEN /\ Raise("OpenCsv", "NameError")
            /\ UNCHANGED <<data_source, opened>>
       ELSE /\ data_source' = <<open_csv(CsvPath, CsvKwargs)>>
            /\ opened' = opened \cup {CsvPath}
            /\ Done("OpenCsv", <<>>)
    /\ UNCHANGED <<files, my_catalog, intake, cat, df, listed, fileBy>>

\* df = data_source.read(); df.head()
ReadDataSource ==
    /\ IF data_source = <<>>
       THEN /\ Raise("ReadDataSource", "NameError")
            /\ UNCHANGED df
       ELSE IF ~CanRead(data_source[1], datasets)
       THEN /\ Raise("ReadDataSource", "FileNotFoundError")
            /\ UNCHANGED df
       ELSE /\ df' = <<read(data_source[1], datasets, nrows)>>
            /\ Done("ReadDataSource", <<>>)
    /\ UNCHANGED <<files, my_catalog, intake, data_source, cat, ghost>>

\* What my_catalog.yml was changed by, after a run of the write cell that
\* completed.
Written(by) == IF by = "none" THEN "write" ELSE "rewrite"

\* with open('my_catalog.yml', 'w') as f: f.write(data_source.yaml())
\* The file is opened, and so emptied, before data_source is looked up.
WriteCatalog ==
    /\ IF data_source = <<>>
       THEN /\ my_catalog' = open_w(my_catalog)
            /\ fileBy' = "truncate"
            /\ Raise("WriteCatalog", "NameError")
       ELSE /\ my_catalog' = write(open_w(my_catalog), yaml(data_source[1]))
            /\ fileBy' = Written(fileBy)
            /\ Done("WriteCatalog", <<>>)
    /\ UNCHANGED <<files, intake, data_source, cat, df, listed, opened>>

\* with open('my_catalog.yml', 'r') as f: print(f.read())
PrintCatalog ==
    /\ IF my_catalog = <<>>
       THEN Raise("PrintCatalog", "FileNotFoundError")
       ELSE Done("PrintCatalog", <<>>)
    /\ UNCHANGED <<files, my_catalog, intake, data_source, cat, df, ghost>>

\* cat = intake.open_catalog('my_catalog.yml'); list(cat)
OpenCatalog ==
    /\ IF ~intake
       THEN /\ Raise("OpenCatalog", "NameError")
            /\ UNCHANGED cat
       ELSE IF my_catalog = <<>>
       THEN /\ Raise("OpenCatalog", "FileNotFoundError")
            /\ UNCHANGED cat
       ELSE IF ~CanOpenCatalog(my_catalog)
       THEN /\ Raise("OpenCatalog", "ValidationError")
            /\ UNCHANGED cat
       ELSE /\ cat' = <<open_catalog(my_catalog)>>
            /\ Done("OpenCatalog", <<list(open_catalog(my_catalog))>>)
    /\ UNCHANGED <<files, my_catalog, intake, data_source, df, ghost>>

\* df = cat.csv.read(); df.head()
ReadCatalogSource ==
    /\ IF cat = <<>>
       THEN /\ Raise("ReadCatalogSource", "NameError")
            /\ UNCHANGED df
       ELSE IF ~HasEntry(cat[1], "csv")
       THEN /\ Raise("ReadCatalogSource", "AttributeError")
            /\ UNCHANGED df
       ELSE IF ~CanRead(get_source(cat[1], "csv"), datasets)
       THEN /\ Raise("ReadCatalogSource", "FileNotFoundError")
            /\ UNCHANGED df
       ELSE /\ df' = <<read(get_source(cat[1], "csv"), datasets, nrows)>>
            /\ Done("ReadCatalogSource", <<>>)
    /\ UNCHANGED <<files, my_catalog, intake, data_source, cat, ghost>>

\* ------------------------------------------- Optional: Edit the catalog

\* The editor saves my_catalog.yml; the kernel is not involved.
Edited(s) ==
    /\ my_catalog' = WithSources(my_catalog, s)
    /\ fileBy' = "edit"
    /\ UNCHANGED <<files, intake, data_source, cat, df, out, err, last,
                   listed, opened>>

SourcesOf(file) == file[1][1].sources

EditName ==
    /\ HasCatalogText(my_catalog)
    /\ \E old \in DOMAIN SourcesOf(my_catalog), new \in NewNames \cup {"csv"} :
          /\ new \notin DOMAIN SourcesOf(my_catalog)
          /\ Edited(rename(SourcesOf(my_catalog), old, new))

EditDescription ==
    /\ HasCatalogText(my_catalog)
    /\ \E n \in DOMAIN SourcesOf(my_catalog), d \in Descriptions :
          /\ SourcesOf(my_catalog)[n].description # d
          /\ Edited(describe(SourcesOf(my_catalog), n, d))

EditCatalogDir ==
    /\ HasCatalogText(my_catalog)
    /\ \E n \in DOMAIN SourcesOf(my_catalog) :
          /\ SourcesOf(my_catalog)[n].args.urlpath[1] # CatalogDirTag
          /\ Edited(add_catalog_dir(SourcesOf(my_catalog), n))

EditPattern ==
    /\ HasCatalogText(my_catalog)
    /\ \E n \in DOMAIN SourcesOf(my_catalog) :
          /\ add_pattern(SourcesOf(my_catalog), n) # SourcesOf(my_catalog)
          /\ Edited(add_pattern(SourcesOf(my_catalog), n))

\* ---------------------------------------------------- specification

Next ==
    \/ ImportIntake
    \/ ListDataDir
    \/ ReadCsvPandas
    \/ OpenCsv
    \/ ReadDataSource
    \/ WriteCatalog
    \/ PrintCatalog
    \/ OpenCatalog
    \/ ReadCatalogSource
    \/ EditName
    \/ EditDescription
    \/ EditCatalogDir
    \/ EditPattern

Spec == Init /\ [][Next]_vars

\* ------------------------------------------------------------ claims

\* my_catalog.yml is as a completed run of the write cell left it: no
\* edit and no failed run of the cell has touched it since.
AsWritten == fileBy \in {"write", "rewrite"}

\* cat is the catalog of my_catalog.yml as the file now is.
CatIsCurrent == CanOpenCatalog(my_catalog) /\ cat = <<open_catalog(my_catalog)>>

\* C1: when the write cell of step 2 has completed, once or more, and the
\* open_catalog cell of step 3 then runs on the file it left, the cell
\* completes, list(cat) is the one name 'csv', and cat has the entry csv
\* that the next cell reads.
C1_OneSourceNamedCsv ==
    (last = "OpenCatalog" /\ AsWritten)
        => /\ err = ""
           /\ out = << <<"csv">> >>
           /\ cat # <<>>
           /\ DOMAIN cat[1].entries = {"csv"}

\* The write cell ran again over the file an earlier run or an edit had
\* left, and step 3 then listed the file.
C1_Witness ==
    /\ last = "OpenCatalog"
    /\ fileBy = "rewrite"
    /\ out = << <<"csv">> >>

C4_Step3CompletesAfterEdit ==
    (/\ last = "ReadCatalogSource"
     /\ fileBy = "edit"
     /\ CatIsCurrent
     /\ <<"b1", "PCM-NCAR">> \in datasets)
        => /\ err = ""
           /\ \E n \in DOMAIN cat[1].entries :
                 df = <<read(get_source(cat[1], n), datasets, nrows)>>

\* C5: a path given to pd.read_csv or to intake.open_csv names a file of
\* the directory that os.listdir has listed.
C5_ReadsTheListedDirectory ==
    \A p \in opened : \A d \in listed : Dirname(p) = d

====
